---- MODULE Spec2Model ----
\* Model of the three glossary scrapers of amanthanvi/synac:
\*   owasp_scrape.py  (SectionStrategy: div.section -> h1 / p)
\*   pdf_scraper.py   (PatternStrategy: regex over the text of each PDF page)
\*   scraper.py       (TableStrategy:  table -> tbody -> tr -> td -> p -> strong)
\* Strings are sequences of one-character strings, so that trimming and
\* pattern matching are computed character by character.
EXTENDS Integers, Sequences, FiniteSets, TLC

VARIABLES
    script,       \* which of the three scripts this run is
    pc,           \* position of the run in the script
    crash,        \* "none", or the kind of the uncaught exception
    doc,          \* the input: PDF pages, or the body the web server answers with
    status,       \* HTTP status of the response (0 before the fetch)
    soup,         \* the parsed tree (pdf: the reader's pages), <<>> before parsing
    csvOpen,      \* the output CSV handle is open
    pdfOpen,      \* the input PDF handle is open
    fileCreated,  \* the output file exists on disk (created / truncated by open)
    hdr,          \* the header row written to the CSV (<<>> if none yet)
    rows,         \* the data rows written to the CSV, in order
    idx,          \* outer loop index (section / page / table)
    j,            \* inner loop index (match / paragraph)
    cur,          \* the inner loop's list (matches of the page / paragraphs of the table)
    u             \* scraper.py: index into urls

vars == <<script, pc, crash, doc, status, soup, csvOpen, pdfOpen, fileCreated,
          hdr, rows, idx, j, cur, u>>

\* ---------------------------------------------------------------- bounds
MaxDocTokens == 4     \* PDF: segments and page breaks of the document
MaxSections == 3      \* OWASP page: div.section containers
MaxHtmlTokens == 3    \* SANS page: table starts and paragraphs

\* ---------------------------------------------------------------- characters
Upper == {"A", "B"}
Ws == {" "}
AllChars == {"A", "B", "a", "b", "c", " ", ":", "."}
UpperWs == Upper \cup Ws
NonPeriod == AllChars \ {"."}

RECURSIVE Concat(_)
Concat(ss) == IF ss = <<>> THEN <<>> ELSE Head(ss) \o Concat(Tail(ss))

\* All sequences over S of length at most n.
BoundedSeq(S, n) == UNION {[1..k -> S] : k \in 0..n}

\* str.strip(): drop leading and trailing whitespace.
RECURSIVE LStrip(_)
LStrip(s) == IF s # <<>> /\ Head(s) \in Ws THEN LStrip(Tail(s)) ELSE s

RECURSIVE RStrip(_)
RStrip(s) ==
    IF s # <<>> /\ s[Len(s)] \in Ws THEN RStrip(SubSeq(s, 1, Len(s) - 1)) ELSE s

Strip(s) == RStrip(LStrip(s))

\* " ".join(parts)
RECURSIVE JoinSpace(_)
JoinSpace(parts) ==
    IF parts = <<>> THEN <<>>
    ELSE IF Len(parts) = 1 THEN parts[1]
    ELSE parts[1] \o <<" ">> \o JoinSpace(Tail(parts))

\* ---------------------------------------------------------------- pdf_scraper.py
PdfName == "NIST.IR.7298r2.pdf"
PdfHeader == <<"Term", "Definition", "Source">>

\* First index k >= i with text[k] outside Cls (Len(text)+1 if none): the end of
\* a greedy character-class run.
RECURSIVE RunEnd(_, _, _)
RunEnd(text, i, Cls) ==
    IF i > Len(text) \/ text[i] \notin Cls THEN i ELSE RunEnd(text, i + 1, Cls)

NoMatch == [ok |-> FALSE, term |-> <<>>, definition |-> <<>>, end |-> 0]

\* One attempt of ([A-Z\s]+):\s+([^.]+)\. anchored at position i, with the
\* greedy / backtracking choice Python's re makes.
\*   group 1 is the whole run of [A-Z\s] from i (a shorter run is followed by a
\*   class character, never by ':'); \s+ takes the whole whitespace run after the
\*   colon, and gives one character back only when nothing but whitespace
\*   precedes the period; [^.]+ runs to the next period.
patternMatchAt(text, i) ==
    LET e1 == RunEnd(text, i, UpperWs)
        w  == e1 + 1
        e2 == RunEnd(text, w, Ws)
        e3 == RunEnd(text, w, NonPeriod)
    IN  IF e1 = i \/ e1 > Len(text) \/ text[e1] # ":" THEN NoMatch
        ELSE IF e2 = w \/ e3 > Len(text) THEN NoMatch
        ELSE IF e3 > e2
            THEN [ok |-> TRUE, term |-> SubSeq(text, i, e1 - 1),
                  definition |-> SubSeq(text, e2, e3 - 1), end |-> e3]
        ELSE IF e2 - w >= 2
            THEN [ok |-> TRUE, term |-> SubSeq(text, i, e1 - 1),
                  definition |-> SubSeq(text, e2 - 1, e2 - 1), end |-> e3]
        ELSE NoMatch

\* pattern.findall(text): scan left to right, resume after each match.
RECURSIVE findallFrom(_, _)
findallFrom(text, pos) ==
    IF pos > Len(text) THEN <<>>
    ELSE LET m == patternMatchAt(text, pos)
         IN  IF m.ok THEN << <<m.term, m.definition>> >> \o findallFrom(text, m.end + 1)
             ELSE findallFrom(text, pos + 1)

findall(text) == findallFrom(text, 1)

\* The PDF documents tried: a sequence of text segments and page breaks.
SentA == <<"A", ":", " ", "a", ".">>
SentB == <<"B", ":", " ", "b", ".">>
Space == <<" ">>
Dangling == <<"A", ":">>
DefTail == <<" ", "c", ".">>
PageBreak == <<"\f">>
PdfTokens == {SentA, SentB, Space, Dangling, DefTail, PageBreak}

\* Split a token sequence at the page breaks: one list of segments per page.
RECURSIVE SplitPages(_, _)
SplitPages(toks, page) ==
    IF toks = <<>> THEN <<page>>
    ELSE IF Head(toks) = PageBreak THEN <<page>> \o SplitPages(Tail(toks), <<>>)
    ELSE SplitPages(Tail(toks), Append(page, Head(toks)))

PdfDocs == {SplitPages(t, <<>>) : t \in BoundedSeq(PdfTokens, MaxDocTokens)}

pdfRowWrongSource(term, definition) == <<term, definition, "terms.csv">>

\* [term, definition, "NIST.IR.7298r2.pdf"]
pdfRow(term, definition) == <<term, definition, PdfName>>

\* page.extract_text(): the text of the page.
extract_text(page) == Concat(page)

WithExitLeak(open) == open

\* The `with` statement's exit: the handle is closed, on return and on exception.
WithExit(open) == FALSE

\* An uncaught exception of kind e at this point of the script: every enclosing
\* `with` block closes its handle, the run ends.
Raise(e) ==
    /\ pc' = "crashed"
    /\ crash' = e
    /\ csvOpen' = WithExit(csvOpen)
    /\ pdfOpen' = WithExit(pdfOpen)

\* with open("NIST.IR.7298r2.pdf", "rb") as file
PdfOpenInput ==
    /\ script = "pdf" /\ pc = "open_pdf"
    /\ \/ /\ pdfOpen' = TRUE
          /\ pc' = "reader"
          /\ UNCHANGED crash
       \/ /\ pc' = "crashed"          \* open() itself raised: nothing to close
          /\ crash' = "IOError"
          /\ UNCHANGED pdfOpen
    /\ UNCHANGED <<script, doc, status, soup, csvOpen, fileCreated, hdr, rows, idx, j, cur, u>>

\* pdf_reader = PdfReader(file)
PdfReaderInit ==
    /\ script = "pdf" /\ pc = "reader"
    /\ soup' = doc
    /\ pc' = "open_csv"
    /\ UNCHANGED <<script, crash, doc, status, csvOpen, pdfOpen, fileCreated, hdr, rows, idx, j, cur, u>>

\* with open("terms.csv", "w", newline="") as csvfile
PdfOpenCsv ==
    /\ script = "pdf" /\ pc = "open_csv"
    /\ \/ /\ csvOpen' = TRUE
          /\ fileCreated' = TRUE
          /\ pc' = "header"
          /\ UNCHANGED <<crash, pdfOpen>>
       \/ /\ Raise("IOError")
          /\ UNCHANGED fileCreated
    /\ UNCHANGED <<script, doc, status, soup, hdr, rows, idx, j, cur, u>>

\* writer.writerow(["Term", "Definition", "Source"]); num_pages = len(pdf_reader.pages)
PdfWriteHeader ==
    /\ script = "pdf" /\ pc = "header"
    /\ \/ /\ hdr' = PdfHeader
          /\ idx' = 1
          /\ pc' = "pages"
          /\ UNCHANGED <<crash, csvOpen, pdfOpen>>
       \/ /\ Raise("IOError")
          /\ UNCHANGED <<hdr, idx>>
    /\ UNCHANGED <<script, doc, status, soup, fileCreated, rows, j, cur, u>>

\* for page_num in range(num_pages): text = page.extract_text();
\* matches = pattern.findall(text)  -- or the end of the loop and of both withs
PdfNextPage ==
    /\ script = "pdf" /\ pc = "pages"
    /\ IF idx <= Len(soup)
       THEN /\ cur' = findall(extract_text(soup[idx]))
            /\ j' = 1
            /\ pc' = "matches"
            /\ UNCHANGED <<csvOpen, pdfOpen>>
       ELSE /\ pc' = "done"
            /\ csvOpen' = WithExit(csvOpen)
            /\ pdfOpen' = WithExit(pdfOpen)
            /\ UNCHANGED <<cur, j>>
    /\ UNCHANGED <<script, crash, doc, status, soup, fileCreated, hdr, rows, idx, u>>

\* for term, definition in matches: writer.writerow([term, definition, name])
PdfWriteMatch ==
    /\ script = "pdf" /\ pc = "matches"
    /\ IF j <= Len(cur)
       THEN \/ /\ rows' = Append(rows, pdfRow(cur[j][1], cur[j][2]))
               /\ j' = j + 1
               /\ UNCHANGED <<pc, crash, csvOpen, pdfOpen, idx>>
            \/ /\ Raise("IOError")
               /\ UNCHANGED <<rows, j, idx>>
       ELSE /\ idx' = idx + 1
            /\ pc' = "pages"
            /\ UNCHANGED <<rows, j, crash, csvOpen, pdfOpen>>
    /\ UNCHANGED <<script, doc, status, soup, fileCreated, hdr, cur, u>>

\* ---------------------------------------------------------------- the HTML tree
\* An element is the list of its text nodes in document order (the text nodes of
\* its descendants included); a text node is a string.
\* Tag.get_text(strip=True): every text node stripped, the empty ones dropped,
\* the rest joined with the empty separator.
RECURSIVE get_text_strip(_)
get_text_strip(frags) ==
    IF frags = <<>> THEN <<>>
    ELSE Strip(Head(frags)) \o get_text_strip(Tail(frags))

None == [some |-> FALSE, node |-> <<>>]

\* Tag.find(name): the first element of that name, or None.
find(elems) == IF elems = <<>> THEN None ELSE [some |-> TRUE, node |-> elems[1]]

\* requests.get(url) returns a response for any HTTP status: no
\* raise_for_status() is called, so the status never raises.
HttpStatuses == {200, 404}

\* ---------------------------------------------------------------- owasp_scrape.py
OwaspHeader == <<"Term", "Definition">>

\* A div.section: its h1 elements and its p elements, each in document order.
Sec(h1s, ps) == [h1s |-> h1s, ps |-> ps]

SecPlain  == Sec(<< <<<<"A">>>> >>, << <<<<"a">>>> >>)
SecPadded == Sec(<< <<<<" ", "B", " ">>>> >>, << <<<<" ", "b", " ", "c", " ">>>> >>)
SecNoH1   == Sec(<<>>, << <<<<"a">>>> >>)
SecNoP    == Sec(<< <<<<"A">>>> >>, <<>>)
SecInline == Sec(<< <<<<"A", " ">>, <<"B">>>> >>, << <<<<"c">>>> >>)
SecTwo    == Sec(<< <<<<"B">>>>, <<<<"A">>>> >>, << <<<<"b">>>>, <<<<"a">>>> >>)
SecBlank  == Sec(<< <<<<" ">>>> >>, << <<<<"a">>>> >>)
SectionKinds == {SecPlain, SecPadded, SecNoH1, SecNoP, SecInline, SecTwo, SecBlank}

OwaspDocs == BoundedSeq(SectionKinds, MaxSections)

\* response = requests.get(url)
OwaspFetch ==
    /\ script = "owasp" /\ pc = "fetch"
    /\ \/ /\ status' \in HttpStatuses
          /\ pc' = "parse"
          /\ UNCHANGED <<crash, csvOpen, pdfOpen>>
       \/ /\ Raise("FetchError")
          /\ UNCHANGED status
    /\ UNCHANGED <<script, doc, soup, fileCreated, hdr, rows, idx, j, cur, u>>

\* soup = BeautifulSoup(response.content, "html.parser")
OwaspParse ==
    /\ script = "owasp" /\ pc = "parse"
    /\ soup' = doc
    /\ pc' = "open_csv"
    /\ UNCHANGED <<script, crash, doc, status, csvOpen, pdfOpen, fileCreated, hdr, rows, idx, j, cur, u>>

\* with open("owasp_terms.csv", "w", newline="") as csvfile
OwaspOpenCsv ==
    /\ script = "owasp" /\ pc = "open_csv"
    /\ \/ /\ csvOpen' = TRUE
          /\ fileCreated' = TRUE
          /\ pc' = "header"
          /\ UNCHANGED <<crash, pdfOpen>>
       \/ /\ Raise("IOError")
          /\ UNCHANGED fileCreated
    /\ UNCHANGED <<script, doc, status, soup, hdr, rows, idx, j, cur, u>>

\* writer.writerow(["Term", "Definition"])
OwaspWriteHeader ==
    /\ script = "owasp" /\ pc = "header"
    /\ \/ /\ hdr' = OwaspHeader
          /\ idx' = 1
          /\ pc' = "sections"
          /\ UNCHANGED <<crash, csvOpen, pdfOpen>>
       \/ /\ Raise("IOError")
          /\ UNCHANGED <<hdr, idx>>
    /\ UNCHANGED <<script, doc, status, soup, fileCreated, rows, j, cur, u>>

\* One pass of `for section in soup.find_all("div", {"class": "section"})`:
\* None.get_text raises AttributeError when the h1 or the p is missing.
OwaspSection ==
    /\ script = "owasp" /\ pc = "sections"
    /\ IF idx <= Len(soup)
       THEN LET h == find(soup[idx].h1s)
                p == find(soup[idx].ps)
            IN  IF ~h.some \/ ~p.some
                THEN /\ Raise("AttributeError")
                     /\ UNCHANGED <<rows, idx>>
                ELSE \/ /\ rows' = Append(rows, <<get_text_strip(h.node),
                                                  get_text_strip(p.node)>>)
                        /\ idx' = idx + 1
                        /\ UNCHANGED <<pc, crash, csvOpen, pdfOpen>>
                     \/ /\ Raise("IOError")
                        /\ UNCHANGED <<rows, idx>>
       ELSE /\ pc' = "done"
            /\ csvOpen' = WithExit(csvOpen)
            /\ UNCHANGED <<rows, idx, crash, pdfOpen>>
    /\ UNCHANGED <<script, doc, status, soup, fileCreated, hdr, j, cur, u>>

\* ---------------------------------------------------------------- scraper.py
urls == <<"https://www.sans.org/security-resources/glossary-of-terms/">>
ScraperHeader == <<"Term", "Definition", "Source">>

\* A child node of a paragraph: a text node, a comment (Comment is a subclass of
\* NavigableString), a <strong> element or another element. frags are the text
\* nodes inside an element, or the one string of a text / comment node.
Node(kind, frags) == [kind |-> kind, frags |-> frags]
Txt(s) == Node("text", <<s>>)
StrongA == Node("strong", <<<<"A">>>>)

PNoStrong    == <<Txt(<<"a">>)>>
PFirewall    == <<StrongA, Txt(<<" ", "a", " ", "b", ".">>)>>
PBlankAfter  == <<StrongA, Txt(<<" ">>), Node("elem", <<<<"b">>>>)>>
PMixed       == <<Txt(<<"c">>), Node("strong", <<<<" ", "B", " ">>>>), Txt(<<" ", "a", " ">>),
                  Node("elem", <<<<"c">>>>), Txt(<<" ">>), Txt(<<"b", " ">>)>>
PInline      == <<Node("strong", <<<<"A", " ">>, <<"B">>>>), Txt(<<"a">>)>>
PComment     == <<StrongA, Txt(<<"a">>), Node("comment", <<<<"c">>>>)>>
PEmptyStrong == <<Node("strong", <<>>), Txt(<<"a">>)>>
PTwoStrong   == <<StrongA, Txt(<<"a">>), Node("strong", <<<<"B">>>>), Txt(<<"b">>)>>
ParagraphKinds == {PNoStrong, PFirewall, PBlankAfter, PMixed, PInline, PComment,
                   PEmptyStrong, PTwoStrong}

\* The page in document order: table starts (with or without a tbody) and
\* paragraphs; a paragraph lies in a td of a tr of the latest table started,
\* or outside every table when none has started.
Tok(kind, tbody, p) == [kind |-> kind, tbody |-> tbody, p |-> p]
HtmlTokens == {Tok("table", TRUE, <<>>), Tok("table", FALSE, <<>>)}
              \cup {Tok("p", FALSE, p) : p \in ParagraphKinds}

ScraperDocs == BoundedSeq(HtmlTokens, MaxHtmlTokens)

\* soup.find_all("table"), and for each table the paragraphs that the loops over
\* table.tbody.find_all("tr"), row.find_all("td"), cell.find_all("p") visit, in
\* document order.
RECURSIVE find_all_tables(_, _)
find_all_tables(toks, tables) ==
    IF toks = <<>> THEN tables
    ELSE LET t == Head(toks)
             n == Len(tables)
         IN  IF t.kind = "table"
             THEN find_all_tables(Tail(toks),
                                  Append(tables, [tbody |-> t.tbody, paras |-> <<>>]))
             ELSE IF n = 0 THEN find_all_tables(Tail(toks), tables)
             ELSE find_all_tables(Tail(toks),
                     [tables EXCEPT ![n].paras = Append(@, t.p)])

\* Index of the first <strong> child of the paragraph, 0 if there is none.
RECURSIVE findStrong(_, _)
findStrong(p, i) ==
    IF i > Len(p) THEN 0
    ELSE IF p[i].kind = "strong" THEN i ELSE findStrong(p, i + 1)

\* isinstance(sibling, NavigableString)
isNavigableString(n) == n.kind \in {"text", "comment"}

\* [str(sibling).strip() for sibling in term_tag.next_siblings
\*  if isinstance(sibling, NavigableString)]
RECURSIVE definition_parts(_)
definition_parts(sibs) ==
    IF sibs = <<>> THEN <<>>
    ELSE IF isNavigableString(Head(sibs))
         THEN <<Strip(Head(sibs).frags[1])>> \o definition_parts(Tail(sibs))
         ELSE definition_parts(Tail(sibs))

\* part for part in definition_parts if part
RECURSIVE nonEmptyParts(_)
nonEmptyParts(parts) ==
    IF parts = <<>> THEN <<>>
    ELSE IF Head(parts) # <<>> THEN <<Head(parts)>> \o nonEmptyParts(Tail(parts))
    ELSE nonEmptyParts(Tail(parts))

keepDefinitionAlways(definition) == TRUE

\* `if definition`: an empty definition is not written.
keepDefinition(definition) == definition # <<>>

\* The body of `for paragraph in paragraphs`: the row written, if any.
paragraphRow(p, url) ==
    LET k == findStrong(p, 1)
        term == get_text_strip(p[k].frags)
        definition == JoinSpace(nonEmptyParts(definition_parts(SubSeq(p, k + 1, Len(p)))))
    IN  IF k = 0 THEN [emit |-> FALSE, row |-> <<>>]
        ELSE IF keepDefinition(definition)
             THEN [emit |-> TRUE, row |-> <<term, definition, url>>]
        ELSE [emit |-> FALSE, row |-> <<>>]

\* with open("terms.csv", "w", newline="") as csvfile
ScraperOpenCsv ==
    /\ script = "scraper" /\ pc = "open_csv"
    /\ \/ /\ csvOpen' = TRUE
          /\ fileCreated' = TRUE
          /\ pc' = "header"
          /\ UNCHANGED <<crash, pdfOpen>>
       \/ /\ pc' = "crashed"          \* open() itself raised: nothing to close
          /\ crash' = "IOError"
          /\ UNCHANGED <<csvOpen, pdfOpen, fileCreated>>
    /\ UNCHANGED <<script, doc, status, soup, hdr, rows, idx, j, cur, u>>

\* writer.writerow(["Term", "Definition", "Source"])
ScraperWriteHeader ==
    /\ script = "scraper" /\ pc = "header"
    /\ \/ /\ hdr' = ScraperHeader
          /\ u' = 1
          /\ pc' = "urls"
          /\ UNCHANGED <<crash, csvOpen, pdfOpen>>
       \/ /\ Raise("IOError")
          /\ UNCHANGED <<hdr, u>>
    /\ UNCHANGED <<script, doc, status, soup, fileCreated, rows, idx, j, cur>>

\* for url in urls: response = requests.get(url)  -- or the end of the with
ScraperFetch ==
    /\ script = "scraper" /\ pc = "urls"
    /\ IF u <= Len(urls)
       THEN \/ /\ status' \in HttpStatuses
               /\ pc' = "parse"
               /\ UNCHANGED <<crash, csvOpen, pdfOpen>>
            \/ /\ Raise("FetchError")
               /\ UNCHANGED status
       ELSE /\ pc' = "done"
            /\ csvOpen' = WithExit(csvOpen)
            /\ UNCHANGED <<status, crash, pdfOpen>>
    /\ UNCHANGED <<script, doc, soup, fileCreated, hdr, rows, idx, j, cur, u>>

\* soup = BeautifulSoup(response.content, "html.parser"); tables = soup.find_all("table")
ScraperParse ==
    /\ script = "scraper" /\ pc = "parse"
    /\ soup' = find_all_tables(doc, <<>>)
    /\ idx' = 1
    /\ pc' = "tables"
    /\ UNCHANGED <<script, crash, doc, status, csvOpen, pdfOpen, fileCreated, hdr, rows, j, cur, u>>

\* for table in tables: rows = table.tbody.find_all("tr") and the td / p lists;
\* table.tbody is None for a table without tbody, and None.find_all raises.
ScraperTable ==
    /\ script = "scraper" /\ pc = "tables"
    /\ IF idx <= Len(soup)
       THEN IF soup[idx].tbody
            THEN /\ cur' = soup[idx].paras
                 /\ j' = 1
                 /\ pc' = "paragraphs"
                 /\ UNCHANGED <<crash, csvOpen, pdfOpen, u>>
            ELSE /\ Raise("AttributeError")
                 /\ UNCHANGED <<cur, j, u>>
       ELSE /\ u' = u + 1
            /\ pc' = "urls"
            /\ UNCHANGED <<cur, j, crash, csvOpen, pdfOpen>>
    /\ UNCHANGED <<script, doc, status, soup, fileCreated, hdr, rows, idx>>

\* for paragraph in paragraphs: ... writer.writerow([term, definition, url])
ScraperParagraph ==
    /\ script = "scraper" /\ pc = "paragraphs"
    /\ IF j <= Len(cur)
       THEN LET r == paragraphRow(cur[j], urls[u])
            IN  IF r.emit
                THEN \/ /\ rows' = Append(rows, r.row)
                        /\ j' = j + 1
                        /\ UNCHANGED <<pc, crash, csvOpen, pdfOpen, idx>>
                     \/ /\ Raise("IOError")
                        /\ UNCHANGED <<rows, j, idx>>
                ELSE /\ j' = j + 1
                     /\ UNCHANGED <<rows, pc, crash, csvOpen, pdfOpen, idx>>
       ELSE /\ idx' = idx + 1
            /\ pc' = "tables"
            /\ UNCHANGED <<rows, j, crash, csvOpen, pdfOpen>>
    /\ UNCHANGED <<script, doc, status, soup, fileCreated, hdr, cur, u>>

\* ---------------------------------------------------------------- specification
Init ==
    /\ \/ script = "pdf" /\ pc = "open_pdf" /\ doc \in PdfDocs
       \/ script = "owasp" /\ pc = "fetch" /\ doc \in OwaspDocs
       \/ script = "scraper" /\ pc = "open_csv" /\ doc \in ScraperDocs
    /\ crash = "none"
    /\ status = 0
    /\ soup = <<>>
    /\ csvOpen = FALSE
    /\ pdfOpen = FALSE
    /\ fileCreated = FALSE
    /\ hdr = <<>>
    /\ rows = <<>>
    /\ idx = 0
    /\ j = 0
    /\ cur = <<>>
    /\ u = 0

Next ==
    \/ PdfOpenInput
    \/ PdfReaderInit
    \/ PdfOpenCsv
    \/ PdfWriteHeader
    \/ PdfNextPage
    \/ PdfWriteMatch
    \/ OwaspFetch
    \/ OwaspParse
    \/ OwaspOpenCsv
    \/ OwaspWriteHeader
    \/ OwaspSection
    \/ ScraperOpenCsv
    \/ ScraperWriteHeader
    \/ ScraperFetch
    \/ ScraperParse
    \/ ScraperTable
    \/ ScraperParagraph

Spec == Init /\ [][Next]_vars

\* ---------------------------------------------------------------- properties
Terminated == pc \in {"done", "crashed"}

AllIn(s, Cls) == \A k \in 1..Len(s) : s[k] \in Cls

\* No leading or trailing whitespace, and not empty.
Trimmed(s) == s # <<>> /\ s[1] \notin Ws /\ s[Len(s)] \notin Ws

IsPrefix(a, b) == Len(a) <= Len(b) /\ SubSeq(b, 1, Len(a)) = a

\* The text content of an element: its text nodes, concatenated.
TextContent(frags) == Concat(frags)

\* A sentence 'TERM: definition.': uppercase TERM, colon, one whitespace, a
\* definition without period, a period.
ColonAt(seg) == RunEnd(seg, 1, Upper)
IsSentence(seg) ==
    LET c == ColonAt(seg)
    IN  /\ c > 1 /\ c + 3 <= Len(seg)
        /\ seg[c] = ":" /\ seg[c + 1] \in Ws /\ seg[c + 2] \notin Ws
        /\ AllIn(SubSeq(seg, c + 2, Len(seg) - 1), NonPeriod)
        /\ seg[Len(seg)] = "."
SentenceTerm(seg) == SubSeq(seg, 1, ColonAt(seg) - 1)
SentenceDef(seg) == SubSeq(seg, ColonAt(seg) + 2, Len(seg) - 1)

\* A page made of sentences separated by a single space.
IsSentencePage(page) ==
    /\ Len(page) % 2 = 1
    /\ \A k \in 1..Len(page) :
          IF k % 2 = 1 THEN IsSentence(page[k]) ELSE page[k] = Space

RECURSIVE SentenceRows(_)
SentenceRows(page) ==
    IF page = <<>> THEN <<>>
    ELSE IF IsSentence(Head(page))
         THEN << <<SentenceTerm(Head(page)), SentenceDef(Head(page)), PdfName>> >>
              \o SentenceRows(Tail(page))
    ELSE SentenceRows(Tail(page))

RECURSIVE AllSentenceRows(_)
AllSentenceRows(pages) ==
    IF pages = <<>> THEN <<>>
    ELSE SentenceRows(Head(pages)) \o AllSentenceRows(Tail(pages))

\* C1: PatternStrategy on pages of 'TERM: definition.' sentences separated by a
\* single space writes exactly one row per sentence, in order, with term exactly
\* TERM (no leading whitespace), the definition between the colon-whitespace and
\* the period, and the file name as source.
C1_OneEntryPerSentence ==
    (script = "pdf" /\ pc = "done" /\ \A k \in 1..Len(doc) : IsSentencePage(doc[k]))
        => rows = AllSentenceRows(doc)

\* C2: in the HTML scripts a transport error of the fetch ends the run before any
\* row, header or data, has been written.
C2_FetchErrorLeavesNoRow ==
    (script \in {"owasp", "scraper"} /\ crash = "FetchError")
        => (hdr = <<>> /\ rows = <<>>)

\* C3: every data row written by any strategy has a non-empty term without
\* leading or trailing whitespace, and a definition likewise.
C3_EntriesTrimmedNonEmpty ==
    \A i \in 1..Len(rows) : Trimmed(rows[i][1]) /\ Trimmed(rows[i][2])

WellFormedSection(sec) == sec.h1s # <<>> /\ sec.ps # <<>>

\* C4: SectionStrategy on N sections that each have a heading and a paragraph
\* writes exactly N data rows in document order, row i holding the trimmed text
\* of section i's first heading and of its first paragraph.
C4_OneRowPerSection ==
    (script = "owasp" /\ pc = "done" /\ \A i \in 1..Len(doc) : WellFormedSection(doc[i]))
        => /\ Len(rows) = Len(doc)
           /\ \A i \in 1..Len(doc) :
                 rows[i] = <<Strip(TextContent(doc[i].h1s[1])),
                             Strip(TextContent(doc[i].ps[1]))>>

HasStrong(p) == \E k \in 1..Len(p) : p[k].kind = "strong"
FirstStrong(p) == CHOOSE k \in 1..Len(p) :
                     p[k].kind = "strong" /\ \A m \in 1..(k - 1) : p[m].kind # "strong"
SiblingsAfter(p) == SubSeq(p, FirstStrong(p) + 1, Len(p))
IsBlank(s) == AllIn(s, Ws)
IsTextPart(n) == n.kind = "text" /\ ~IsBlank(n.frags[1])

RECURSIVE TextPartsOf(_)
TextPartsOf(sibs) ==
    IF sibs = <<>> THEN <<>>
    ELSE IF IsTextPart(Head(sibs))
         THEN <<Strip(Head(sibs).frags[1])>> \o TextPartsOf(Tail(sibs))
    ELSE TextPartsOf(Tail(sibs))

\* C5: TableStrategy emits, for a paragraph with an emphasis element, the trimmed
\* text of its first emphasis element as term, the single-space join of the
\* trimmed non-empty plain-text siblings that follow it as definition (element
\* siblings contribute nothing), and the fetched URL as source.
C5_TermAndDefinition ==
    [][(script = "scraper" /\ pc = "paragraphs" /\ rows' # rows)
          => rows' = Append(rows, <<Strip(TextContent(cur[j][FirstStrong(cur[j])].frags)),
                                    JoinSpace(TextPartsOf(SiblingsAfter(cur[j]))),
                                    urls[1]>>)]_vars

OnlyBlankAfterStrong(p) ==
    /\ HasStrong(p)
    /\ \A k \in 1..Len(SiblingsAfter(p)) :
          LET n == SiblingsAfter(p)[k]
          IN  n.kind \in {"elem", "strong"} \/ (n.kind = "text" /\ IsBlank(n.frags[1]))

\* C6: TableStrategy writes no row for a paragraph without emphasis element, nor
\* for one whose emphasis element is followed only by blank text nodes and
\* element siblings; the loop goes on to the next paragraph without error.
C6_SkipsSilently ==
    [][(script = "scraper" /\ pc = "paragraphs" /\ j <= Len(cur)
          /\ (~HasStrong(cur[j]) \/ OnlyBlankAfterStrong(cur[j])))
          => (rows' = rows /\ pc' = "paragraphs" /\ j' = j + 1 /\ crash' = "none")]_vars

C6_Witness ==
    /\ script = "scraper" /\ pc = "paragraphs" /\ j = 3 /\ rows = <<>>
    /\ ~HasStrong(cur[1])
    /\ OnlyBlankAfterStrong(cur[2])

RECURSIVE ExpectedPdfRows(_)
ExpectedPdfRows(pages) ==
    IF pages = <<>> THEN <<>>
    ELSE LET ms == findall(extract_text(Head(pages)))
         IN  [k \in 1..Len(ms) |-> <<ms[k][1], ms[k][2], PdfName>>]
             \o ExpectedPdfRows(Tail(pages))

\* term ':' whitespace+ definition '.' occurs in text, as the pattern reads it.
OccursAsMatch(text, term, definition) ==
    /\ term # <<>> /\ AllIn(term, UpperWs)
    /\ definition # <<>> /\ AllIn(definition, NonPeriod)
    /\ \E s \in 1..Len(text) : \E n \in 1..Len(text) :
          LET c == s + Len(term)
              d == c + 1 + n
              e == d + Len(definition)
          IN  /\ e <= Len(text)
              /\ SubSeq(text, s, c - 1) = term
              /\ text[c] = ":"
              /\ AllIn(SubSeq(text, c + 1, d - 1), Ws)
              /\ SubSeq(text, d, e - 1) = definition
              /\ text[e] = "."

\* C7: PatternStrategy writes the matches of page 1, then of page 2, ..., each
\* page's matches left to right, every row with the file name as source; a page
\* without match adds nothing and raises nothing; every match lies in one page.
C7_RowsFollowPagesAndMatches ==
    script = "pdf" =>
        /\ IsPrefix(rows, ExpectedPdfRows(doc))
        /\ pc = "done" => rows = ExpectedPdfRows(doc)
        /\ crash \in {"none", "IOError"}
        /\ \A i \in 1..Len(rows) :
              /\ rows[i][3] = PdfName
              /\ \E k \in 1..Len(doc) :
                    OccursAsMatch(extract_text(doc[k]), rows[i][1], rows[i][2])

\* Two pages, none on the first, one match on the second, and the two texts put
\* together would hold two matches.
C7_Witness ==
    /\ script = "pdf" /\ pc = "done" /\ Len(doc) = 2
    /\ findall(extract_text(doc[1])) = <<>>
    /\ Len(rows) = 1
    /\ Len(findall(extract_text(doc[1]) \o extract_text(doc[2]))) = 2

\* C8: in the HTML scripts a response with a non-2xx status is fatal: no data row
\* is written from its body.
C8_Non2xxIsFatal ==
    (script \in {"owasp", "scraper"} /\ status # 0 /\ status \notin 200..299)
        => rows = <<>>

RECURSIVE WellFormedRows(_)
WellFormedRows(secs) ==
    IF secs = <<>> THEN <<>>
    ELSE IF WellFormedSection(Head(secs))
         THEN << <<get_text_strip(Head(secs).h1s[1]), get_text_strip(Head(secs).ps[1])>> >>
              \o WellFormedRows(Tail(secs))
    ELSE WellFormedRows(Tail(secs))

\* C9: SectionStrategy skips a section without heading or without paragraph and
\* goes on: every section that has both still gets its row, in document order.
C9_MalformedSectionSkipped ==
    (script = "owasp" /\ Terminated /\ crash \notin {"FetchError", "IOError"})
        => rows = WellFormedRows(doc)

\* C10: once the run has terminated, normally or by an error, neither the output
\* CSV handle nor the input PDF handle is open.
C10_HandlesClosed ==
    Terminated => (~csvOpen /\ ~pdfOpen)

\* The PDF run failed while writing a data row, with both files open.
C10_Witness ==
    /\ script = "pdf" /\ pc = "crashed" /\ crash = "IOError"
    /\ fileCreated /\ rows # <<>>
    /\ ~csvOpen /\ ~pdfOpen

====
